---- MODULE Spec2Model ----
(***************************************************************************)
(* FlowShop: proportional flow shop with outsourcing.                      *)
(*                                                                         *)
(*   src/FlowShopWSPTMCI.cpp   the completion-time model and the WSPT-MCI  *)
(*                             sequencing heuristic (namespace flowshop)   *)
(*   src/FlowShopOutsource.cpp the two selectors, solveNaiveDetailed and   *)
(*                             solveDP (namespace flowshop_ext)            *)
(*   src/main.cpp              runAndBenchmark, which runs both selectors  *)
(*                             on one instance and compares objectives     *)
(*                                                                         *)
(* Three specifications share the module:                                  *)
(*   SpecOracle  the completion model and solveWSPT_MCI, one action per    *)
(*               loop iteration of the insertion heuristic, on job lists   *)
(*               with processing times and weights from 0 on;              *)
(*   Spec        runAndBenchmark: solveNaiveDetailed, then solveDP row by  *)
(*               row, on instances shaped as generateRandomInstance makes  *)
(*               them (ids 0..n-1, p >= 1, w >= 1), with costs from 0 on;  *)
(*   SpecValid   the argument validation of the two selectors, on inputs   *)
(*               that may be invalid.                                      *)
(*                                                                         *)
(* Integers: the code computes in long long.  The model's integers are 32  *)
(* bits wide, so the two sentinels LLMax and INF keep the code's           *)
(* definitions at that width.  Within the bounds no objective comes near   *)
(* either sentinel, so no arithmetic of the model wraps.                   *)
(***************************************************************************)
EXTENDS Integers, Sequences, FiniteSets

VARIABLES
    allJobs,           \* the jobs handed to the operation, a sequence of Job
    outsourcingCosts,  \* the per-job outsourcing costs, a sequence of integers
    m,                 \* the machine count
    U,                 \* the outsourcing budget
    verifyDP,          \* solveWSPT_MCI's verifyDP flag
    opc,               \* position of the oracle run
    sorted,            \* solveWSPT_MCI: jobs after std::stable_sort
    S,                 \* solveWSPT_MCI: the partial sequence
    k,                 \* solveWSPT_MCI: index (0-based) of the next job of sorted
    bestPos,           \* solveWSPT_MCI: the position chosen by the last iteration
    sol,               \* solveWSPT_MCI: the Solution returned
    closedObj,         \* computeObjectiveClosedForm(allJobs, m)
    tableObj,          \* computeObjectiveDP(allJobs, m)
    pc,                \* position of runAndBenchmark
    naive,             \* runAndBenchmark: out.naive
    dp,                \* solveDP: the rows dp[0..i] filled so far
    dpRes,             \* runAndBenchmark: out.dp
    naiveStatus,       \* how the call of solveNaiveDetailed ended
    dpStatus           \* how the call of solveDP ended

\* The inputs.
ivars == <<allJobs, outsourcingCosts, m, U, verifyDP>>

\* The state of the oracle run.
ovars == <<opc, sorted, S, k, bestPos, sol, closedObj, tableObj>>

\* The state of the selectors.
svars == <<pc, naive, dp, dpRes, naiveStatus, dpStatus>>

vars == <<ivars, ovars, svars>>

----------------------------------------------------------------------------
(* Bounds of the model. *)

\* The longest job list drawn for the selectors.
MaxJobs == 3

\* The largest machine count drawn for the selectors.
MaxM == 2

\* The largest processing time drawn for the selectors.
MaxP == 2

\* The largest weight drawn for the selectors.
MaxW == 2

\* The longest job list drawn for the oracle.
OracleMaxJobs == 4

\* The largest machine count, processing time and weight drawn for the
\* oracle.  Below three machines, or with weights and processing times all
\* below 3, every insertion of solveWSPT_MCI lands at the end.
OracleMaxM == 3

OracleMaxP == 2

OracleMaxW == 3

\* The largest outsourcing cost drawn.
MaxCost == 3

\* The largest budget drawn.
MaxU == 2

----------------------------------------------------------------------------
(* Program constants. *)

\* The smallest processing time generateRandomInstance draws: distP(1, 20).
MinP == 1

\* The smallest weight generateRandomInstance draws: distW(1, 10).
MinW == 1

\* if (n >= 63) throw: the job count solveNaiveDetailed refuses.
MaskLimit == 63

----------------------------------------------------------------------------
(* Sentinels. *)

\* std::numeric_limits<long long>::max(), at the model's integer width.
LLMax == 2147483647

\* const long long INF = std::numeric_limits<long long>::max() / 4;
INF == LLMax \div 4

----------------------------------------------------------------------------
(* flowshop::Job, flowshop::Solution *)

Job(id, p, w) == [id |-> id, p |-> p, w |-> w]

Solution(sequence, objective) == [sequence |-> sequence, objective |-> objective]

EmptySolution == Solution(<<>>, 0)

----------------------------------------------------------------------------
(* CompletionModel *)

RECURSIVE ClosedFormLoop(_, _, _, _, _, _)
\* The for loop of computeObjectiveClosedForm from position r on.
ClosedFormLoop(seq, mm, r, sumP, maxP, obj) ==
    IF r > Len(seq) THEN obj
    ELSE LET job == seq[r]
             sumP2 == sumP + job.p
             maxP2 == IF job.p > maxP THEN job.p ELSE maxP
             C == sumP2 + (mm - 1) * maxP2
         IN  ClosedFormLoop(seq, mm, r + 1, sumP2, maxP2, obj + job.w * C)

RECURSIVE ClosedFormOwnP(_, _, _, _, _)
ClosedFormOwnP(seq, mm, r, sumP, obj) ==
    IF r > Len(seq) THEN obj
    ELSE ClosedFormOwnP(seq, mm, r + 1, sumP + seq[r].p,
                        obj + seq[r].w * (sumP + seq[r].p + (mm - 1) * seq[r].p))

\* Mutant: the pipeline delay taken from the job's own p, not the running max.
computeObjectiveClosedFormOwnP(seq, mm) == ClosedFormOwnP(seq, mm, 1, 0, 0)

\* C_r = sum_{k<=r} p_k + (m-1) * max{p_1..p_r}; objective = sum w_r * C_r.
computeObjectiveClosedForm(seq, mm) == ClosedFormLoop(seq, mm, 1, 0, 0, 0)

Max2(a, b) == IF a > b THEN a ELSE b

RECURSIVE TableRow(_, _, _, _, _)
\* Row i of the table C, machines kk..mm, given the row above (<<>> for i = 0)
\* and the part of the row already filled.
TableRow(up, p, mm, kk, row) ==
    IF kk > mm THEN row
    ELSE LET upV == IF Len(up) > 0 THEN up[kk] ELSE 0
             leftV == IF kk > 1 THEN row[kk - 1] ELSE 0
         IN  TableRow(up, p, mm, kk + 1, Append(row, Max2(upV, leftV) + p))

RECURSIVE TableLoop(_, _, _, _, _)
\* The two loops of computeObjectiveDP merged: row i is filled, then read at
\* the last machine.
TableLoop(seq, mm, i, up, obj) ==
    IF i > Len(seq) THEN obj
    ELSE LET row == TableRow(up, seq[i].p, mm, 1, <<>>)
         IN  TableLoop(seq, mm, i + 1, row, obj + seq[i].w * row[mm])

\* C[i][k] = max(C[i-1][k], C[i][k-1]) + p_i; objective = sum w_i * C[i][m-1].
computeObjectiveDP(seq, mm) == TableLoop(seq, mm, 1, <<>>, 0)

----------------------------------------------------------------------------
(* SequencingOracle: solveWSPT_MCI *)

\* The comparator of std::stable_sort: decreasing w/p by cross-multiplication,
\* then smaller p first.
wsptLess(a, b) ==
    LET left == a.w * b.p
        right == b.w * a.p
    IN  IF left # right THEN left > right ELSE a.p < b.p

RECURSIVE StableInsert(_, _, _)
\* x placed into the sorted list s behind every element not ordered after it.
StableInsert(s, x, i) ==
    IF i > Len(s) THEN Append(s, x)
    ELSE IF wsptLess(x, s[i])
         THEN SubSeq(s, 1, i - 1) \o <<x>> \o SubSeq(s, i, Len(s))
         ELSE StableInsert(s, x, i + 1)

RECURSIVE StableSortFrom(_, _, _)
StableSortFrom(jobs, i, acc) ==
    IF i > Len(jobs) THEN acc
    ELSE StableSortFrom(jobs, i + 1, StableInsert(acc, jobs[i], 1))

\* std::stable_sort(jobs.begin(), jobs.end(), comparator)
stableSort(jobs) == StableSortFrom(jobs, 1, <<>>)

\* candidate.insert(candidate.begin() + pos, newJob), pos 0-based.
InsertAt(seq, pos, x) ==
    SubSeq(seq, 1, pos) \o <<x>> \o SubSeq(seq, pos + 1, Len(seq))

\* Mutant: no tie-break, the first minimal position is kept.
takesPositionStrict(obj, bestObj, pos, bPos) == obj < bestObj

\* if (obj < bestObj || (obj == bestObj && pos > bestPos))
takesPosition(obj, bestObj, pos, bPos) ==
    obj < bestObj \/ (obj = bestObj /\ pos > bPos)

RECURSIVE PositionScan(_, _, _, _, _, _)
\* The inner loop over the insertion positions pos..Len(seq); returns bestPos.
PositionScan(seq, newJob, mm, pos, bestObj, bPos) ==
    IF pos > Len(seq) THEN bPos
    ELSE LET obj == computeObjectiveClosedForm(InsertAt(seq, pos, newJob), mm)
         IN  IF takesPosition(obj, bestObj, pos, bPos)
             THEN PositionScan(seq, newJob, mm, pos + 1, obj, pos)
             ELSE PositionScan(seq, newJob, mm, pos + 1, bestObj, bPos)

\* bestObj = max, bestPos = 0, then the scan of all positions.
chooseBestPos(seq, newJob, mm) == PositionScan(seq, newJob, mm, 0, LLMax, 0)

\* Mutant: the new job overwrites the job at the chosen position.
insertionStepOverwrite(seq, newJob, mm) ==
    LET pos == chooseBestPos(seq, newJob, mm)
    IN  SubSeq(seq, 1, pos) \o <<newJob>> \o SubSeq(seq, pos + 2, Len(seq))

\* One iteration of the loop over k: S.insert(S.begin() + bestPos, newJob).
insertionStep(seq, newJob, mm) ==
    InsertAt(seq, chooseBestPos(seq, newJob, mm), newJob)

RECURSIVE InsertionLoop(_, _, _, _)
\* The loop for (k = kk; k < jobs.size(); ++k), kk 0-based.
InsertionLoop(srt, kk, seq, mm) ==
    IF kk >= Len(srt) THEN seq
    ELSE InsertionLoop(srt, kk + 1, insertionStep(seq, srt[kk + 1], mm), mm)

\* solveWSPT_MCI on a non-empty list with m >= 1 (the throwing cases are the
\* callers' guards); verification is the action OracleFinish.
solveWSPT_MCI(jobs, mm) ==
    LET srt == stableSort(jobs)
        seq == InsertionLoop(srt, 1, <<srt[1]>>, mm)
    IN  Solution(seq, computeObjectiveClosedForm(seq, mm))

----------------------------------------------------------------------------
(* flowshop_ext::NaiveResult, flowshop_ext::DPState *)

NaiveResult(objective, inhouseOrder, outsourced, outsourcingCost) ==
    [objective |-> objective, inhouseOrder |-> inhouseOrder,
     outsourced |-> outsourced, outsourcingCost |-> outsourcingCost]

DPState(objective, inhouseJobs) ==
    [objective |-> objective, inhouseJobs |-> inhouseJobs]

\* The objective of the oracle's sequencing of jobs, 0 for the empty list.
getObjectiveOnly(jobs, mm) ==
    IF Len(jobs) = 0 THEN 0 ELSE solveWSPT_MCI(jobs, mm).objective

\* The oracle's Solution, the empty Solution for the empty list.
getSolutionOnly(jobs, mm) ==
    IF Len(jobs) = 0 THEN EmptySolution ELSE solveWSPT_MCI(jobs, mm)

----------------------------------------------------------------------------
(* ExhaustiveSelector: solveNaiveDetailed *)

RECURSIVE Pow2(_)
\* 1ULL << n
Pow2(n) == IF n = 0 THEN 1 ELSE 2 * Pow2(n - 1)

\* (mask >> j) & 1ULL, j 0-based.
maskBit(mask, j) == (mask \div Pow2(j)) % 2 = 1

RECURSIVE SplitByMask(_, _, _, _, _, _, _)
\* The loop over j that fills currentA, currentOut and currentOutsourceCost.
SplitByMask(jobs, costs, mask, j, currentA, currentOut, cost) ==
    IF j >= Len(jobs)
    THEN [A |-> currentA, Out |-> currentOut, cost |-> cost]
    ELSE IF maskBit(mask, j)
         THEN SplitByMask(jobs, costs, mask, j + 1,
                          Append(currentA, jobs[j + 1]), currentOut, cost)
         ELSE SplitByMask(jobs, costs, mask, j + 1, currentA,
                          Append(currentOut, jobs[j + 1]), cost + costs[j + 1])

\* Mutant: a tie replaces the best so far.
naiveImprovesOrTies(obj, bestObjective) == obj <= bestObjective

\* if (obj < best.objective)
naiveImproves(obj, bestObjective) == obj < bestObjective

\* Mutant: the new best keeps the outsourced list of the old one.
naiveVisitStaleOut(jobs, costs, mm, UU, mask, best) ==
    LET split == SplitByMask(jobs, costs, mask, 0, <<>>, <<>>, 0)
    IN  IF split.cost > UU THEN best
        ELSE LET solA == getSolutionOnly(split.A, mm)
             IN  IF solA.objective < best.objective
                 THEN NaiveResult(solA.objective, solA.sequence, best.outsourced,
                                  split.cost)
                 ELSE best

\* The body of the loop over mask: best after this mask.
naiveVisit(jobs, costs, mm, UU, mask, best) ==
    LET split == SplitByMask(jobs, costs, mask, 0, <<>>, <<>>, 0)
    IN  IF split.cost > UU THEN best
        ELSE LET solA == getSolutionOnly(split.A, mm)
             IN  IF naiveImproves(solA.objective, best.objective)
                 THEN NaiveResult(solA.objective, solA.sequence, split.Out,
                                  split.cost)
                 ELSE best

RECURSIVE NaiveLoop(_, _, _, _, _, _)
\* for (mask = from; mask < totalMasks; ++mask)
NaiveLoop(jobs, costs, mm, UU, from, best) ==
    IF from >= Pow2(Len(jobs)) THEN best
    ELSE NaiveLoop(jobs, costs, mm, UU, from + 1,
                   naiveVisit(jobs, costs, mm, UU, from, best))

RECURSIVE SumSeq(_, _)
\* std::accumulate over the first n entries.
SumSeq(seq, n) == IF n = 0 THEN 0 ELSE SumSeq(seq, n - 1) + seq[n]

\* solveNaiveDetailed past its argument checks.
solveNaiveDetailed(jobs, costs, mm, UU) ==
    LET best == NaiveLoop(jobs, costs, mm, UU, 0, NaiveResult(LLMax, <<>>, <<>>, 0))
    IN  IF best.objective = LLMax
        THEN NaiveResult(0, <<>>, jobs, SumSeq(costs, Len(costs)))
        ELSE best

----------------------------------------------------------------------------
(* BudgetedDPSelector: solveDP *)

\* Mutant: option 1 records keepObj but not keepList.
dpKeepStaleList(prev, job, mm, c, best) ==
    IF prev[c].objective # INF
    THEN LET keepList == Append(prev[c].inhouseJobs, job)
             keepObj == getObjectiveOnly(keepList, mm)
         IN  IF keepObj < best.objective
             THEN DPState(keepObj, prev[c].inhouseJobs)
             ELSE best
    ELSE best

\* Option 1 of a transition: keep the job in-house.
dpKeep(prev, job, mm, c, best) ==
    IF prev[c].objective # INF
    THEN LET keepList == Append(prev[c].inhouseJobs, job)
             keepObj == getObjectiveOnly(keepList, mm)
         IN  IF keepObj < best.objective THEN DPState(keepObj, keepList) ELSE best
    ELSE best

\* Mutant: an equal outsource objective replaces the keep option.
dpOutsourceWinsOrTies(outObj, bestObjective) == outObj <= bestObjective

\* if (outObj < best.objective)
dpOutsourceWins(outObj, bestObjective) == outObj < bestObjective

\* Mutant: the job's cost is not taken off the cap.
dpOutsourceNoDeduct(prev, u_i, c, best) ==
    IF u_i <= c /\ prev[c].objective # INF
    THEN IF prev[c].objective < best.objective
         THEN DPState(prev[c].objective, prev[c].inhouseJobs)
         ELSE best
    ELSE best

\* Option 2 of a transition: outsource the job, if the budget allows.
dpOutsource(prev, u_i, c, best) ==
    IF u_i <= c /\ prev[c - u_i].objective # INF
    THEN LET outObj == prev[c - u_i].objective
         IN  IF dpOutsourceWins(outObj, best.objective)
             THEN DPState(outObj, prev[c - u_i].inhouseJobs)
             ELSE best
    ELSE best

\* Mutant: the budget test of option 2 is dropped where the cap covers no cost.
dpCellFreeOutsource(prev, job, u_i, mm, c) ==
    LET kept == dpKeep(prev, job, mm, c, DPState(INF, <<>>))
        from == IF u_i <= c THEN c - u_i ELSE c
    IN  IF prev[from].objective < kept.objective
        THEN DPState(prev[from].objective, prev[from].inhouseJobs)
        ELSE kept

\* dp[i][c] from row i-1: best starts unreachable, option 1, then option 2.
dpCell(prev, job, u_i, mm, c) ==
    dpOutsource(prev, u_i, c, dpKeep(prev, job, mm, c, DPState(INF, <<>>)))

\* Row 0: objective 0 and no in-house job at every cap.
dpBaseRow(UU) == [c \in 0..UU |-> DPState(0, <<>>)]

\* Row i from row i-1: the loop over c.
dpRow(prev, job, u_i, mm, UU) == [c \in 0..UU |-> dpCell(prev, job, u_i, mm, c)]

RECURSIVE OutsourcedFrom(_, _, _, _, _, _)
\* The loop over idx that collects the jobs whose id is not in-house.
OutsourcedFrom(jobs, costs, inhouseIds, idx, out, cost) ==
    IF idx >= Len(jobs) THEN [outsourced |-> out, cost |-> cost]
    ELSE IF jobs[idx + 1].id \notin inhouseIds
         THEN OutsourcedFrom(jobs, costs, inhouseIds, idx + 1,
                             Append(out, jobs[idx + 1]), cost + costs[idx + 1])
         ELSE OutsourcedFrom(jobs, costs, inhouseIds, idx + 1, out, cost)

\* The result built from bestState = dp[n][U].
dpResult(jobs, costs, mm, bestState) ==
    LET obj0 == IF bestState.objective = INF THEN 0 ELSE bestState.objective
        solB == getSolutionOnly(bestState.inhouseJobs, mm)
        inhouseIds == { bestState.inhouseJobs[i].id :
                          i \in 1..Len(bestState.inhouseJobs) }
        rest == OutsourcedFrom(jobs, costs, inhouseIds, 0, <<>>, 0)
    IN  IF Len(bestState.inhouseJobs) # 0
        THEN NaiveResult(solB.objective, solB.sequence, rest.outsourced, rest.cost)
        ELSE NaiveResult(obj0, <<>>, rest.outsourced, rest.cost)

RECURSIVE DPRows(_, _, _, _, _, _)
\* The forward pass from row i on; returns row n.
DPRows(jobs, costs, mm, UU, i, prev) ==
    IF i > Len(jobs) THEN prev
    ELSE DPRows(jobs, costs, mm, UU, i + 1,
                dpRow(prev, jobs[i], costs[i], mm, UU))

\* solveDP past its argument checks.
solveDP(jobs, costs, mm, UU) ==
    dpResult(jobs, costs, mm, DPRows(jobs, costs, mm, UU, 1, dpBaseRow(UU))[UU])

----------------------------------------------------------------------------
(* How a call of a selector ends: "invalid_argument" when it throws            *)
(* std::invalid_argument, its own or the oracle's, "ok" when it returns.   *)

\* Some mask with an in-house job is within the budget: solveNaiveDetailed
\* then calls the oracle, which throws when m <= 0.
naiveCallsOracle(jobs, costs, UU) ==
    \E mask \in 1..(Pow2(Len(jobs)) - 1) :
        SplitByMask(jobs, costs, mask, 0, <<>>, <<>>, 0).cost <= UU

\* Mutant: the count check is off by one.
naiveRejectsCountAbove(n) == n > MaskLimit

\* if (n >= 63) throw std::invalid_argument
naiveRejectsCount(n) == n >= MaskLimit

\* The throws of solveNaiveDetailed in the order the code reaches them.
solveNaiveStatus(jobs, costs, mm, UU) ==
    IF Len(jobs) # Len(costs) THEN "invalid_argument"
    ELSE IF naiveRejectsCount(Len(jobs)) THEN "invalid_argument"
    ELSE IF mm <= 0 /\ naiveCallsOracle(jobs, costs, UU) THEN "invalid_argument"
    ELSE "ok"

\* if (U < 0) throw std::invalid_argument("U must be non-negative")
dpRejectsBudget(UU) == UU < 0

\* The throws of solveDP in the order the code reaches them; the last is the
\* oracle's, called for job 1 at cap 0 whenever there is a job.
solveDPStatus(jobs, costs, mm, UU) ==
    IF Len(jobs) # Len(costs) THEN "invalid_argument"
    ELSE IF dpRejectsBudget(UU) THEN "invalid_argument"
    ELSE IF \E i \in 1..Len(costs) : costs[i] < 0 THEN "invalid_argument"
    ELSE IF mm <= 0 /\ Len(jobs) >= 1 THEN "invalid_argument"
    ELSE "ok"

----------------------------------------------------------------------------
(* Inputs drawn by the specifications. *)

\* Job lists of length n with ids 0..n-1 (main.cpp: j.id = i), processing
\* times in P and weights in W.
JobLists(n, P, W) ==
    { [i \in 1..n |-> Job(i - 1, pw[i][1], pw[i][2])] : pw \in [1..n -> P \X W] }

\* Cost lists of length n.
CostLists(n) == [1..n -> 0..MaxCost]

\* The selectors before any call.
SelectorsIdle ==
    /\ pc = "idle"
    /\ naive = NaiveResult(0, <<>>, <<>>, 0)
    /\ dp = <<>>
    /\ dpRes = NaiveResult(0, <<>>, <<>>, 0)
    /\ naiveStatus = "none"
    /\ dpStatus = "none"

\* The oracle before any call.
OracleIdle ==
    /\ opc = "idle"
    /\ sorted = <<>>
    /\ S = <<>>
    /\ k = 0
    /\ bestPos = 0
    /\ sol = EmptySolution
    /\ closedObj = 0
    /\ tableObj = 0

----------------------------------------------------------------------------
(* SpecOracle: the completion model and the oracle, step by step. *)

InitOracle ==
    /\ \E n \in 0..OracleMaxJobs :
          allJobs \in JobLists(n, 0..OracleMaxP, 0..OracleMaxW)
    /\ m \in 1..OracleMaxM
    /\ verifyDP = TRUE
    /\ outsourcingCosts = <<>>
    /\ U = 0
    /\ opc = "start"
    /\ sorted = <<>>
    /\ S = <<>>
    /\ k = 0
    /\ bestPos = 0
    /\ sol = EmptySolution
    /\ closedObj = 0
    /\ tableObj = 0
    /\ SelectorsIdle

\* Both objective functions applied to the list as given.
EvalObjectives ==
    /\ opc = "start"
    /\ closedObj' = computeObjectiveClosedForm(allJobs, m)
    /\ tableObj' = computeObjectiveDP(allJobs, m)
    /\ opc' = "evaluated"
    /\ UNCHANGED <<ivars, svars, sorted, S, k, bestPos, sol>>

\* solveWSPT_MCI up to the loop: the argument checks, the sort, the seed.
OracleBegin ==
    /\ opc = "start"
    /\ IF Len(allJobs) = 0
       THEN /\ opc' = "invalid_argument"
            /\ UNCHANGED <<sorted, S, k>>
       ELSE /\ sorted' = stableSort(allJobs)
            /\ S' = <<stableSort(allJobs)[1]>>
            /\ k' = 1
            /\ opc' = "insert"
    /\ UNCHANGED <<ivars, svars, bestPos, sol, closedObj, tableObj>>

\* One iteration of the loop over k.
OracleInsert ==
    /\ opc = "insert"
    /\ k < Len(sorted)
    /\ bestPos' = chooseBestPos(S, sorted[k + 1], m)
    /\ S' = insertionStep(S, sorted[k + 1], m)
    /\ k' = k + 1
    /\ UNCHANGED <<ivars, svars, opc, sorted, sol, closedObj, tableObj>>

\* After the loop: the Solution, and the verification when asked for.
OracleFinish ==
    /\ opc = "insert"
    /\ k >= Len(sorted)
    /\ sol' = Solution(S, computeObjectiveClosedForm(S, m))
    /\ tableObj' = IF verifyDP THEN computeObjectiveDP(S, m) ELSE tableObj
    /\ opc' = IF verifyDP /\ computeObjectiveDP(S, m) # computeObjectiveClosedForm(S, m)
              THEN "runtime_error"
              ELSE "done"
    /\ UNCHANGED <<ivars, svars, sorted, S, k, bestPos, closedObj>>

NextOracle == EvalObjectives \/ OracleBegin \/ OracleInsert \/ OracleFinish

SpecOracle == InitOracle /\ [][NextOracle]_vars

----------------------------------------------------------------------------
(* Spec: runAndBenchmark on a valid instance. *)

Init ==
    /\ \E n \in 0..MaxJobs :
          /\ allJobs \in JobLists(n, MinP..MaxP, MinW..MaxW)
          /\ outsourcingCosts \in CostLists(n)
    /\ m \in 1..MaxM
    /\ U \in 0..MaxU
    /\ verifyDP = FALSE
    /\ OracleIdle
    /\ pc = "naive"
    /\ naive = NaiveResult(0, <<>>, <<>>, 0)
    /\ dp = <<>>
    /\ dpRes = NaiveResult(0, <<>>, <<>>, 0)
    /\ naiveStatus = "none"
    /\ dpStatus = "none"

\* out.naive = solveNaiveDetailed(inst.jobs, inst.ui, inst.m, inst.U); an
\* exception leaves runAndBenchmark.
RunNaive ==
    /\ pc = "naive"
    /\ naiveStatus' = solveNaiveStatus(allJobs, outsourcingCosts, m, U)
    /\ IF solveNaiveStatus(allJobs, outsourcingCosts, m, U) = "ok"
       THEN /\ naive' = solveNaiveDetailed(allJobs, outsourcingCosts, m, U)
            /\ pc' = "dp"
       ELSE /\ naive' = naive
            /\ pc' = "invalid_argument"
    /\ UNCHANGED <<ivars, ovars, dp, dpRes, dpStatus>>

\* solveDP up to the forward pass: the argument checks, then the table with
\* its base row.
DPBegin ==
    /\ pc = "dp"
    /\ IF solveDPStatus(allJobs, outsourcingCosts, m, U) = "ok"
       THEN /\ dp' = <<dpBaseRow(U)>>
            /\ pc' = "dp_rows"
            /\ dpStatus' = dpStatus
       ELSE /\ dp' = dp
            /\ pc' = "invalid_argument"
            /\ dpStatus' = "invalid_argument"
    /\ UNCHANGED <<ivars, ovars, naive, dpRes, naiveStatus>>

\* One iteration of the loop over i: row i of the table.
DPRowStep ==
    /\ pc = "dp_rows"
    /\ Len(dp) <= Len(allJobs)
    /\ dp' = Append(dp, dpRow(dp[Len(dp)], allJobs[Len(dp)],
                              outsourcingCosts[Len(dp)], m, U))
    /\ UNCHANGED <<ivars, ovars, pc, naive, dpRes, naiveStatus, dpStatus>>

\* After the forward pass: the result built from dp[n][U].
DPFinish ==
    /\ pc = "dp_rows"
    /\ Len(dp) = Len(allJobs) + 1
    /\ dpRes' = dpResult(allJobs, outsourcingCosts, m, dp[Len(dp)][U])
    /\ dpStatus' = "ok"
    /\ pc' = "validate"
    /\ UNCHANGED <<ivars, ovars, naive, dp, naiveStatus>>

\* if (!validateSameObjective(out.naive, out.dp)) throw std::runtime_error
Validate ==
    /\ pc = "validate"
    /\ pc' = IF naive.objective = dpRes.objective THEN "done" ELSE "runtime_error"
    /\ UNCHANGED <<ivars, ovars, naive, dp, dpRes, naiveStatus, dpStatus>>

Next == RunNaive \/ DPBegin \/ DPRowStep \/ DPFinish \/ Validate

Spec == Init /\ [][Next]_vars

----------------------------------------------------------------------------
(* SpecValid: the two selectors called on inputs that may be invalid.      *)
(* Job counts around MaskLimit are drawn beside the short lists; for those *)
(* only the way the call ends is kept, not the result.                     *)

\* Job counts drawn: short lists, and the counts around MaskLimit.
ValidCounts == (0..(MaxJobs - 1)) \cup ((MaskLimit - 1)..(MaskLimit + 1))

\* n unit jobs with ids 0..n-1.
UnitJobs(n) == [i \in 1..n |-> Job(i - 1, 1, 1)]

\* Cost lists of length len with entries in -1..1: all of them for a short
\* list, the constant ones for a long list.
ValidCosts(len) ==
    IF len <= MaxJobs
    THEN [1..len -> -1..1]
    ELSE { [i \in 1..len |-> c] : c \in -1..1 }

InitValid ==
    /\ \E n \in ValidCounts :
          /\ allJobs = UnitJobs(n)
          /\ \E len \in {l \in (n - 1)..(n + 1) : l >= 0} :
                outsourcingCosts \in ValidCosts(len)
          /\ m \in 0..1
          /\ n < MaxJobs \/ m >= 1
    /\ U \in -1..1
    /\ verifyDP = FALSE
    /\ OracleIdle
    /\ pc = "call_naive"
    /\ naive = NaiveResult(0, <<>>, <<>>, 0)
    /\ dp = <<>>
    /\ dpRes = NaiveResult(0, <<>>, <<>>, 0)
    /\ naiveStatus = "none"
    /\ dpStatus = "none"

\* solveNaiveDetailed(allJobs, outsourcingCosts, m, U)
CallNaive ==
    /\ pc = "call_naive"
    /\ naiveStatus' = solveNaiveStatus(allJobs, outsourcingCosts, m, U)
    /\ naive' = IF /\ solveNaiveStatus(allJobs, outsourcingCosts, m, U) = "ok"
                   /\ Len(allJobs) <= MaxJobs
                THEN solveNaiveDetailed(allJobs, outsourcingCosts, m, U)
                ELSE naive
    /\ pc' = "call_dp"
    /\ UNCHANGED <<ivars, ovars, dp, dpRes, dpStatus>>

\* solveDP(allJobs, outsourcingCosts, m, U)
CallDP ==
    /\ pc = "call_dp"
    /\ dpStatus' = solveDPStatus(allJobs, outsourcingCosts, m, U)
    /\ dpRes' = IF /\ solveDPStatus(allJobs, outsourcingCosts, m, U) = "ok"
                   /\ Len(allJobs) <= MaxJobs
                THEN solveDP(allJobs, outsourcingCosts, m, U)
                ELSE dpRes
    /\ pc' = "called"
    /\ UNCHANGED <<ivars, ovars, naive, dp, naiveStatus>>

NextValid == CallNaive \/ CallDP

SpecValid == InitValid /\ [][NextValid]_vars

----------------------------------------------------------------------------
(* Vocabulary of the properties. *)

\* The ids of a job list.
IdsOf(list) == { list[i].id : i \in 1..Len(list) }

\* How often x occurs in list.
Occurrences(list, x) == Cardinality({ i \in 1..Len(list) : list[i] = x })

\* a and b hold the same records the same number of times.
IsPermutationOf(a, b) ==
    /\ Len(a) = Len(b)
    /\ \A i \in 1..Len(a) : Occurrences(a, a[i]) = Occurrences(b, a[i])

RECURSIVE SubList(_, _, _)
\* The jobs at the positions in A, in list order, from position i on.
SubList(list, A, i) ==
    IF i > Len(list) THEN <<>>
    ELSE (IF i \in A THEN <<list[i]>> ELSE <<>>) \o SubList(list, A, i + 1)

RECURSIVE CostOfPositions(_)
\* The summed outsourcing cost of the jobs at the positions in A.
CostOfPositions(A) ==
    IF A = {} THEN 0
    ELSE LET i == CHOOSE x \in A : TRUE
         IN  outsourcingCosts[i] + CostOfPositions(A \ {i})

RECURSIVE MaskOf(_)
\* The bitmask whose set bits are the positions in A.
MaskOf(A) ==
    IF A = {} THEN 0
    ELSE LET i == CHOOSE x \in A : TRUE
         IN  Pow2(i - 1) + MaskOf(A \ {i})

Positions == 1..Len(allJobs)

\* The in-house sets whose complement is within the budget.
Feasible == { A \in SUBSET Positions : CostOfPositions(Positions \ A) <= U }

\* The oracle objective of in-house set A, 0 for the empty set.
OracleObjective(A) == getObjectiveOnly(SubList(allJobs, A, 1), m)

\* The costs of the jobs of a returned list, looked up by id.
CostOfList(list) == CostOfPositions({ list[i].id + 1 : i \in 1..Len(list) })

\* Both selectors have returned.
BothReturned == pc = "validate"

\* Every single outsourcing cost is above the budget.
EveryCostExceedsBudget ==
    \A i \in 1..Len(outsourcingCosts) : outsourcingCosts[i] > U

----------------------------------------------------------------------------
(* C1 *)

\* C1: on every valid instance solveNaiveDetailed and solveDP report the
\* same objective.
C1_SelectorsAgree == BothReturned => naive.objective = dpRes.objective

----------------------------------------------------------------------------
(* C2 *)

\* A is feasible, attains the least oracle objective over the feasible sets,
\* and no feasible set with a smaller bitmask attains it.
IsFirstMinimiser(A) ==
    /\ A \in Feasible
    /\ \A B \in Feasible :
          /\ OracleObjective(A) <= OracleObjective(B)
          /\ MaskOf(B) < MaskOf(A) => OracleObjective(A) < OracleObjective(B)

\* C2: the objective solveNaiveDetailed returns is the least oracle
\* objective over the in-house sets whose complement costs at most U, and
\* the returned sequence, outsourced list and cost are those of the
\* minimising set with the lowest bitmask.
C2_NaiveIsFirstMinimum ==
    pc = "dp" =>
        \E A \in SUBSET Positions :
            /\ IsFirstMinimiser(A)
            /\ naive.objective = OracleObjective(A)
            /\ naive.inhouseOrder = getSolutionOnly(SubList(allJobs, A, 1), m).sequence
            /\ naive.outsourced = SubList(allJobs, Positions \ A, 1)
            /\ naive.outsourcingCost = CostOfPositions(Positions \ A)

\* solveNaiveDetailed has returned a split with jobs on both sides, a second
\* feasible set attains the same least objective, and some set the budget
\* excludes would have done better.
C2_Witness ==
    /\ pc = "dp"
    /\ naive.inhouseOrder # <<>>
    /\ naive.outsourced # <<>>
    /\ \E A \in Feasible :
          /\ OracleObjective(A) = naive.objective
          /\ SubList(allJobs, Positions \ A, 1) # naive.outsourced
    /\ \E B \in (SUBSET Positions) \ Feasible :
          OracleObjective(B) < naive.objective

----------------------------------------------------------------------------
(* C3 *)

\* C3: the outsourcing cost either selector returns is at most U, and it is
\* the summed cost of exactly the jobs of the returned outsourced list.
C3_CostWithinBudget ==
    BothReturned =>
        /\ naive.outsourcingCost <= U
        /\ dpRes.outsourcingCost <= U
        /\ naive.outsourcingCost = CostOfList(naive.outsourced)
        /\ dpRes.outsourcingCost = CostOfList(dpRes.outsourced)

\* Both selectors have returned, each spending the whole positive budget on
\* its outsourced jobs, solveDP on two of them or more.
C3_Witness ==
    /\ BothReturned
    /\ U >= 1
    /\ naive.outsourcingCost = U
    /\ dpRes.outsourcingCost = U
    /\ Len(dpRes.outsourced) >= 2

----------------------------------------------------------------------------
(* C4 *)

\* The in-house and outsourced ids of result r are disjoint, unrepeated and
\* together the input ids.
PartitionsInput(r) ==
    /\ IdsOf(r.inhouseOrder) \cap IdsOf(r.outsourced) = {}
    /\ Cardinality(IdsOf(r.inhouseOrder)) = Len(r.inhouseOrder)
    /\ Cardinality(IdsOf(r.outsourced)) = Len(r.outsourced)
    /\ IdsOf(r.inhouseOrder) \cup IdsOf(r.outsourced) = IdsOf(allJobs)

\* C4: in the result of either selector the in-house ids and the outsourced
\* ids are disjoint, hold no id twice and together are the input ids.
C4_ResultPartitionsJobs ==
    BothReturned => PartitionsInput(naive) /\ PartitionsInput(dpRes)

\* Both selectors have returned splits with jobs on both sides, and not the
\* same split.
C4_Witness ==
    /\ BothReturned
    /\ naive.inhouseOrder # <<>> /\ naive.outsourced # <<>>
    /\ dpRes.inhouseOrder # <<>> /\ dpRes.outsourced # <<>>
    /\ naive.outsourced # dpRes.outsourced

----------------------------------------------------------------------------
(* C5 *)

\* C5: for every job list, the empty one included, and every m >= 1 the
\* closed-form objective equals the table objective; so the verification of
\* solveWSPT_MCI never throws.
C5_ClosedFormEqualsTable ==
    /\ opc = "evaluated" => closedObj = tableObj
    /\ opc # "runtime_error"
    /\ opc = "done" => tableObj = sol.objective

\* Both objectives have been computed for a list on several machines whose
\* running maximum of p rises after the first job, with a positive result.
C5_Witness ==
    /\ opc = "evaluated"
    /\ m >= 2
    /\ Len(allJobs) >= 2
    /\ allJobs[1].p < allJobs[2].p
    /\ allJobs[2].w > 0
    /\ closedObj > 0

----------------------------------------------------------------------------
(* C6 *)

\* C6: the sequence solveWSPT_MCI returns is a permutation of its input
\* (same length, same records as often), and the objective returned is the
\* closed-form objective of that sequence.
C6_OracleReturnsPermutation ==
    opc = "done" =>
        /\ IsPermutationOf(sol.sequence, allJobs)
        /\ sol.objective = computeObjectiveClosedForm(sol.sequence, m)

\* The oracle has returned a sequence of three jobs or more in another order
\* than the input's.
C6_Witness ==
    /\ opc = "done"
    /\ Len(allJobs) >= 3
    /\ sol.sequence # allJobs
    /\ sol.objective > 0

----------------------------------------------------------------------------
(* C7 *)

\* C7 as stated: when every outsourcing cost is above U, both selectors
\* return no in-house job, objective 0 and outsourcing cost 0.
C7_AllOutsourcedWhenUnaffordable ==
    BothReturned /\ EveryCostExceedsBudget =>
        /\ naive.inhouseOrder = <<>> /\ dpRes.inhouseOrder = <<>>
        /\ naive.objective = 0 /\ dpRes.objective = 0
        /\ naive.outsourcingCost = 0 /\ dpRes.outsourcingCost = 0

\* r keeps every job in-house: the oracle's sequence and objective of the
\* whole job list, nothing outsourced, nothing spent.
KeepsAllInHouse(r) ==
    /\ r.inhouseOrder = getSolutionOnly(allJobs, m).sequence
    /\ r.objective = getObjectiveOnly(allJobs, m)
    /\ r.outsourced = <<>>
    /\ r.outsourcingCost = 0

\* C7 amended: when every outsourcing cost is above U, both selectors keep
\* every job in-house: the outsourced list is empty, the outsourcing cost is
\* 0, and the sequence and objective are the oracle's for the whole list.
C7_AllInHouseWhenUnaffordable ==
    BothReturned /\ EveryCostExceedsBudget =>
        KeepsAllInHouse(naive) /\ KeepsAllInHouse(dpRes)

\* Both selectors have returned on two jobs or more, each costing more than
\* the positive budget.
C7_Witness ==
    /\ BothReturned
    /\ EveryCostExceedsBudget
    /\ Len(allJobs) >= 2
    /\ U >= 1

----------------------------------------------------------------------------
(* C8 *)

\* C8: for either selector, a budget U1 below U gives an objective at least
\* that of U, jobs, costs and m held fixed.
C8_MonotoneInBudget ==
    BothReturned =>
        \A U1 \in 0..U :
            /\ naive.objective
                 <= solveNaiveDetailed(allJobs, outsourcingCosts, m, U1).objective
            /\ dpRes.objective
                 <= solveDP(allJobs, outsourcingCosts, m, U1).objective

\* The half of C8 that holds: the exhaustive selector alone.
NaiveMonotoneInBudget ==
    BothReturned =>
        \A U1 \in 0..U :
            naive.objective
              <= solveNaiveDetailed(allJobs, outsourcingCosts, m, U1).objective

----------------------------------------------------------------------------
(* C9 *)

CostsNonNegative ==
    \A i \in 1..Len(outsourcingCosts) : outsourcingCosts[i] >= 0

BothCalled == pc = "called"

\* C9 as stated: on non-negative costs solveDP throws exactly when
\* solveNaiveDetailed does.
C9_SameValidation ==
    BothCalled /\ CostsNonNegative =>
        (dpStatus = "invalid_argument" <=> naiveStatus = "invalid_argument")

\* The outsource-everything fallback of solveNaiveDetailed.
IsFallback(r) ==
    /\ r.objective = 0
    /\ r.inhouseOrder = <<>>
    /\ r.outsourced = allJobs
    /\ r.outsourcingCost = SumSeq(outsourcingCosts, Len(outsourcingCosts))

\* C9 amended: on non-negative costs, with U >= 0 and fewer than 63 jobs
\* solveDP throws exactly when solveNaiveDetailed does, and both throw when
\* the cost list's length differs from the job count.  They differ in two
\* checks: solveDP alone rejects a negative U (solveNaiveDetailed, given
\* matching lengths and fewer than 63 jobs, then returns the
\* outsource-everything fallback), and solveNaiveDetailed alone rejects a
\* job count of 63 or more (solveDP, given matching lengths, U >= 0 and
\* m >= 1, throws no std::invalid_argument).
C9_ValidationDiffersInBudgetAndCount ==
    BothCalled /\ CostsNonNegative =>
        /\ U >= 0 /\ Len(allJobs) < MaskLimit =>
              (dpStatus = "invalid_argument" <=> naiveStatus = "invalid_argument")
        /\ Len(allJobs) # Len(outsourcingCosts) =>
              dpStatus = "invalid_argument" /\ naiveStatus = "invalid_argument"
        /\ U < 0 => dpStatus = "invalid_argument"
        /\ U < 0 /\ Len(allJobs) = Len(outsourcingCosts) /\ Len(allJobs) < MaskLimit =>
              naiveStatus = "ok" /\ (Len(allJobs) <= MaxJobs => IsFallback(naive))
        /\ Len(allJobs) >= MaskLimit /\ Len(allJobs) = Len(outsourcingCosts) =>
              /\ naiveStatus = "invalid_argument"
              /\ U >= 0 /\ m >= 1 => dpStatus = "ok"

\* Both selectors have been called with 63 jobs, as many non-negative costs,
\* m >= 1 and U >= 0: the one input on which only solveNaiveDetailed throws.
C9_Witness ==
    /\ BothCalled
    /\ CostsNonNegative
    /\ Len(allJobs) = MaskLimit
    /\ Len(outsourcingCosts) = MaskLimit
    /\ U >= 0
    /\ m >= 1
    /\ naiveStatus = "invalid_argument"
    /\ dpStatus = "ok"

----------------------------------------------------------------------------
(* C10 *)

\* C10: every insertion step of solveWSPT_MCI puts the next job of the WSPT
\* order at the largest position whose closed-form objective is the least
\* over all positions 0..Len(S), and leaves the jobs of S in their order.
C10_RightmostMinimalInsertion ==
    [][ opc = "insert" /\ k' = k + 1 =>
          LET newJob == sorted[k + 1]
              objAt(pos) == computeObjectiveClosedForm(InsertAt(S, pos, newJob), m)
          IN  /\ bestPos' \in 0..Len(S)
              /\ S' = SubSeq(S, 1, bestPos') \o <<newJob>>
                        \o SubSeq(S, bestPos' + 1, Len(S))
              /\ \A pos \in 0..Len(S) : objAt(bestPos') <= objAt(pos)
              /\ \A pos \in (bestPos' + 1)..Len(S) : objAt(bestPos') < objAt(pos)
      ]_vars

\* An insertion step into a sequence of two jobs or more has put its job
\* before the end, behind another position that gave the same least
\* objective.
C10_Witness ==
    /\ opc = "insert"
    /\ k >= 3
    /\ bestPos >= 1
    /\ bestPos < Len(S) - 1
    /\ LET newJob == S[bestPos + 1]
           before == SubSeq(S, 1, bestPos) \o SubSeq(S, bestPos + 2, Len(S))
       IN  \E pos \in 0..(bestPos - 1) :
               computeObjectiveClosedForm(InsertAt(before, pos, newJob), m)
                 = computeObjectiveClosedForm(S, m)

----------------------------------------------------------------------------
(* C11 *)

\* The rows of the table filled so far, numbered as in the source: row i of
\* the source is dp[i + 1] here.
FilledRows == 1..(Len(dp) - 1)

\* keepObj of the transition for job i at cap c.
KeepObjective(i, c) ==
    getObjectiveOnly(Append(dp[i][c].inhouseJobs, allJobs[i]), m)

\* outObj of the transition for job i at cap c, for a cap that covers the cost.
OutObjective(i, c) == dp[i][c - outsourcingCosts[i]].objective

\* Job i is in the in-house set of dp[i][c].
CellKeeps(i, c) == allJobs[i].id \in IdsOf(dp[i + 1][c].inhouseJobs)

\* C11: in every transition of solveDP for job i at cap c with
\* outsourcingCosts[i] <= c, when the keep-in-house objective equals the
\* outsource objective the cell keeps job i in-house, and the cell leaves
\* job i out only when the outsource objective is strictly smaller.
C11_TieKeepsInHouse ==
    \A i \in FilledRows : \A c \in 0..U :
        outsourcingCosts[i] <= c =>
            /\ KeepObjective(i, c) = OutObjective(i, c) =>
                  /\ CellKeeps(i, c)
                  /\ dp[i + 1][c] = DPState(KeepObjective(i, c),
                                            Append(dp[i][c].inhouseJobs, allJobs[i]))
            /\ ~CellKeeps(i, c) => OutObjective(i, c) < KeepObjective(i, c)

\* The forward pass has filled a cell for a job of positive cost that the cap
\* covers, where both options gave the same objective and the two source
\* cells hold different in-house sets; the cell kept the job.
C11_Witness ==
    \E i \in FilledRows : \E c \in 0..U :
        /\ outsourcingCosts[i] >= 1
        /\ outsourcingCosts[i] <= c
        /\ KeepObjective(i, c) = OutObjective(i, c)
        /\ dp[i][c].inhouseJobs # dp[i][c - outsourcingCosts[i]].inhouseJobs
        /\ CellKeeps(i, c)

----------------------------------------------------------------------------
(* C12 *)

\* The positions among the first i whose job is not in the in-house list.
LeftOut(i, inhouseJobs) ==
    { j \in 1..i : allJobs[j].id \notin IdsOf(inhouseJobs) }

\* Cell dp[i][c] of the source (row i is dp[i + 1] here) is reachable, holds
\* jobs of the first i only, in input order and each once, leaves out jobs
\* costing at most c in total, and carries the oracle objective of its
\* in-house list.
CellSound(i, c) ==
    LET cell == dp[i + 1][c]
    IN  /\ cell.objective # INF
        /\ cell.inhouseJobs = SubList(allJobs, (1..i) \ LeftOut(i, cell.inhouseJobs), 1)
        /\ CostOfPositions(LeftOut(i, cell.inhouseJobs)) <= c
        /\ cell.objective = getObjectiveOnly(cell.inhouseJobs, m)

\* C12: every cell of the table solveDP has filled is reachable, holds a
\* subset of the first i jobs whose complement among them costs at most c,
\* and carries the oracle objective of that subset; the objective solveDP
\* returns is that of dp[n][U], which is not the unreachable sentinel.
C12_TableCellsSound ==
    /\ \A i \in 0..(Len(dp) - 1) : \A c \in 0..U : CellSound(i, c)
    /\ BothReturned =>
          /\ dp[Len(allJobs) + 1][U].objective # INF
          /\ dpRes.objective = dp[Len(allJobs) + 1][U].objective

\* solveDP has returned from a table of three rows or more whose last cell
\* keeps some jobs and leaves others out, and some cell of the last row at a
\* smaller cap holds a different in-house list.
C12_Witness ==
    /\ BothReturned
    /\ Len(allJobs) >= 2
    /\ LET last == dp[Len(allJobs) + 1]
       IN  /\ last[U].inhouseJobs # <<>>
           /\ LeftOut(Len(allJobs), last[U].inhouseJobs) # {}
           /\ \E c \in 0..(U - 1) : last[c].inhouseJobs # last[U].inhouseJobs

====
